---- MODULE Spec2Model ----
(***************************************************************************)
(* State-machine model of the fraud-monitoring dashboard front end:        *)
(*   - Dashboard component   (src/unnamed/part_001)                        *)
(*   - HeatMap component     (src/unnamed/part_000)                        *)
(*   - apiService            (src/frontend/src/services/api.js)            *)
(*                                                                         *)
(* Numbers: a risk score is held in hundredths (0.7 is 70), the clock      *)
(* Date.now() in milliseconds.  Execution is the single-threaded UI event  *)
(* loop, so every handler and every promise continuation is one atomic     *)
(* action.                                                                 *)
(***************************************************************************)
EXTENDS Integers, Sequences, FiniteSets, TLC

(***************************************************************************)
(* Bounds of the model                                                     *)
(***************************************************************************)
MaxEvents == 2
MaxBurst == 52
MaxTime == 1
MaxHeatTicks == 2
MaxHeatRetries == 1
MaxCount == 6

(***************************************************************************)
(* Program constants                                                       *)
(***************************************************************************)
HistorySliceEnd == 49
AlertSliceEnd == 19
RiskThreshold == 70
RefreshIntervalMs == 30000

(***************************************************************************)
(* Input alphabets                                                         *)
(***************************************************************************)
Actions == {"approve", "flag", "block"}
TxIds == {1, 2}
Risks == {70, 71}
Amounts == {250}

Transaction(i, a, r, t, m) ==
  [transaction_id |-> i, action |-> a, risk_score |-> r, timestamp |-> t, amount |-> m]

\* the live events the backend may push as its k-th event in the general
\* specification: every action at the threshold and just above it, identifiers
\* repeat, the backend's timestamps increase strictly
Events(k) ==
  { Transaction(i, a, r, k, m) : i \in TxIds, a \in Actions, r \in Risks, m \in Amounts }

\* the live events of the refresh specification
RefreshEvents(k) == { Transaction(i, "approve", 10, k, 250) : i \in TxIds }

\* the k-th event of a fixed backend stream: every event triggers an alert,
\* transaction identifiers repeat with period 7, the amount k tells events apart
StreamEvent(k) ==
  Transaction((k % 7) + 1,
              CASE k % 3 = 0 -> "block" [] k % 3 = 1 -> "flag" [] OTHER -> "approve",
              IF k % 3 = 0 THEN 10 ELSE 90,
              k, k)

StatsOf(t, f, b) ==
  [total_transactions |-> t, flagged_transactions |-> f, blocked_transactions |-> b]

\* a backend list of n records, most recent first
BackendList(n) == [k \in 1..n |-> Transaction((k % 2) + 1, "approve", 10, n + 1 - k, 250)]

Response(n) ==
  [recent_transactions |-> BackendList(n), fraud_stats |-> StatsOf(100, 10, 5)]

\* GET /api/dashboard-data responses of the general specification
Responses == { Response(2) }

\* responses of the rate specification: every small statistics triple, a total
\* of 16 (where one decimal place can tie) and the documented example
Counts == 0..MaxCount
RateResponses ==
  { [recent_transactions |-> << >>, fraud_stats |-> StatsOf(t, f, b)] :
      t \in Counts \cup {16, 100}, f \in Counts \cup {10}, b \in Counts }

\* GET /api/heat-map-data responses
Hotspot(lat, lng, count, avg) ==
  [_id |-> [lat |-> lat, lng |-> lng, city |-> "city", country |-> "country"],
   fraud_count |-> count, avg_risk_score |-> avg]

\* NaN and null coordinates, held as values outside every latitude and longitude
NotANumber == 0 - 1000
Null == 0 - 2000

\* aggregates at and around the colour thresholds, at 0, above 1, and one
\* without a usable latitude
HeatResponses ==
  { << >>, << Hotspot(1, 1, 3, 85) >>, << Hotspot(1, 1, 3, 85), Hotspot(2, 2, 1, 15) >>,
    << Hotspot(3, 3, 2, 80), Hotspot(4, 4, 1, 0) >>,
    << Hotspot(NotANumber, 5, 1, 60), Hotspot(6, 6, 4, 120), Hotspot(7, Null, 1, 40) >>,
    << Hotspot(8, 8, 1, 79), Hotspot(9, 9, 1, 20), Hotspot(10, 10, 1, 19) >> }

\* responses of the refresh specification: lists around the history cap
RefreshResponses == { Response(n) : n \in {0, 2, 49, 50, 51} }

(***************************************************************************)
(* State                                                                   *)
(***************************************************************************)
VARIABLES
  dashboard,      \* "new" | "mounted" | "unmounted": lifecycle of <Dashboard/>
  dashboardData,  \* useState: recent_transactions, fraud_stats
  alerts,         \* useState: the alert list
  loading,        \* useState: loading flag
  socket,         \* the socket.io connection: opens, closes, listening
  pendingDash,    \* getDashboardData promises in flight
  now,            \* Date.now()
  received,       \* history: number of transaction_update events handled
  sinceRefresh,   \* history: events handled since the history was last replaced
  last,           \* history: the last operation and the lists before it
  applied,        \* history: the data last stored by a load, initially the useState value
  lateCalls,      \* history: callbacks that ran after their component unmounted
  heat,           \* "new" | "mounted" | "unmounted": lifecycle of <HeatMap/>
  heatTimer,      \* whether the setInterval timer is active
  heatMapData,    \* useState: the hotspot aggregates
  heatLoading,    \* useState: loading flag
  heatError,      \* useState: error message, or "null"
  lastUpdate,     \* useState: time of the last successful load, or -1 for null
  pendingHeat,    \* getHeatMapData promises in flight
  heatCount,      \* history: loads started, timer ticks, retries, loads at unmount
  heatLast        \* history: the last heat map operation and the aggregates before it

dashVars == << dashboard, dashboardData, alerts, loading, socket, pendingDash,
               received, sinceRefresh, last, applied >>

heatVars == << heat, heatTimer, heatMapData, heatLoading, heatError, lastUpdate,
               pendingHeat, heatCount, heatLast >>

vars == << dashVars, heatVars, now, lateCalls >>

(***************************************************************************)
(* JavaScript helpers                                                      *)
(***************************************************************************)
\* Array.prototype.slice(0, n)
Slice0(s, n) == SubSeq(s, 1, IF Len(s) < n THEN Len(s) ELSE n)

\* String.prototype.toUpperCase on the action names
ToUpperCase(a) ==
  CASE a = "approve" -> "APPROVE" [] a = "flag" -> "FLAG" [] a = "block" -> "BLOCK"

\* (x * 100).toFixed(1) of a score held in hundredths: tenths of a percent
PercentFixed1(r) == r * 10

NoTransaction == Transaction(0, "none", 0, 0, 0)

Last(op, tx, id) ==
  [op |-> op, tx |-> tx, id |-> id, alerts |-> alerts,
   history |-> dashboardData.recent_transactions]

(***************************************************************************)
(* Dashboard                                                               *)
(***************************************************************************)
InitialDashboardData ==
  [recent_transactions |-> << >>, fraud_stats |-> StatsOf(0, 0, 0)]

Init ==
  /\ dashboard = "new"
  /\ dashboardData = InitialDashboardData
  /\ alerts = << >>
  /\ loading = TRUE
  /\ socket = [opens |-> 0, closes |-> 0, listening |-> FALSE]
  /\ pendingDash = 0
  /\ now = 0
  /\ received = 0
  /\ sinceRefresh = << >>
  /\ last = [op |-> "init", tx |-> NoTransaction, id |-> 0, alerts |-> << >>,
             history |-> << >>]
  /\ applied = InitialDashboardData
  /\ lateCalls = {}
  /\ heat = "new"
  /\ heatTimer = FALSE
  /\ heatMapData = << >>
  /\ heatLoading = TRUE
  /\ heatError = "null"
  /\ lastUpdate = -1
  /\ pendingHeat = 0
  /\ heatCount = [fetches |-> 0, ticks |-> 0, retries |-> 0, atUnmount |-> 0]
  /\ heatLast = [op |-> "init", data |-> << >>]

\* faulty variant: the threshold taken inclusively
ShouldAlertInclusive(transaction) ==
  transaction.action = "block" \/ transaction.risk_score >= RiskThreshold

\* the alert policy of the transaction_update handler
ShouldAlert(transaction) ==
  transaction.action = "block" \/ transaction.risk_score > RiskThreshold

NewAlert(transaction) ==
  [id |-> now,
   timestamp |-> now,
   message |-> << ToUpperCase(transaction.action), transaction.transaction_id,
                  transaction.amount, PercentFixed1(transaction.risk_score) >>,
   type |-> transaction.action,
   transaction_id |-> transaction.transaction_id]

\* faulty variant: one entry too many kept
PrependTransactionKeep50(transaction, prev) ==
  << transaction >> \o Slice0(prev, HistorySliceEnd + 1)

\* faulty variant: an earlier record of the same transaction dropped
PrependTransactionDedup(transaction, prev) ==
  << transaction >>
    \o Slice0(SelectSeq(prev, LAMBDA t : t.transaction_id # transaction.transaction_id),
              HistorySliceEnd)

\* setDashboardData(prev => ...) of the handler: the new recent_transactions
PrependTransaction(transaction, prev) ==
  << transaction >> \o Slice0(prev, HistorySliceEnd)

\* faulty variant: one entry too many kept
PrependAlertKeep20(alert, prev) == << alert >> \o Slice0(prev, AlertSliceEnd + 1)

\* setAlerts(prev => ...) of the handler
PrependAlert(alert, prev) == << alert >> \o Slice0(prev, AlertSliceEnd)

\* the body of loadDashboardData up to its await
StartLoad ==
  /\ loading' = TRUE
  /\ pendingDash' = pendingDash + 1

\* useEffect(() => {...}, []): open the socket, register the handler, load
DashboardMount ==
  /\ dashboard = "new"
  /\ dashboard' = "mounted"
  /\ socket' = [socket EXCEPT !.opens = @ + 1, !.listening = TRUE]
  /\ StartLoad
  /\ last' = Last("mount", NoTransaction, 0)
  /\ UNCHANGED << dashboardData, alerts, now, received, sinceRefresh,
                  lateCalls, applied, heatVars >>

\* newSocket.on('transaction_update', ...) invoked with one event
OnTransactionUpdate(transaction) ==
  /\ socket.listening
  /\ dashboardData' =
       [dashboardData EXCEPT !.recent_transactions = PrependTransaction(transaction, @)]
  /\ alerts' = IF ShouldAlert(transaction)
               THEN PrependAlert(NewAlert(transaction), alerts)
               ELSE alerts
  /\ received' = received + 1
  /\ sinceRefresh' = Append(sinceRefresh, transaction)
  /\ last' = Last("event", transaction, 0)
  /\ lateCalls' = IF dashboard = "unmounted"
                  THEN lateCalls \cup {"transaction_update"} ELSE lateCalls
  /\ UNCHANGED << dashboard, loading, socket, pendingDash, now, applied, heatVars >>

LiveEvent ==
  /\ received < MaxEvents
  /\ \E transaction \in Events(received + 1) : OnTransactionUpdate(transaction)

BurstEvent ==
  /\ received < MaxBurst
  /\ OnTransactionUpdate(StreamEvent(received + 1))

\* the clock advances
Tick ==
  /\ now < MaxTime
  /\ now' = now + 1
  /\ UNCHANGED << dashboard, dashboardData, alerts, loading, socket, pendingDash,
                  received, sinceRefresh, last, lateCalls, applied, heatVars >>

\* the Refresh button, rendered only when not loading
RefreshClick ==
  /\ dashboard = "mounted"
  /\ ~loading
  /\ StartLoad
  /\ last' = Last("refresh", NoTransaction, 0)
  /\ UNCHANGED << dashboard, dashboardData, alerts, socket, now, received,
                  sinceRefresh, lateCalls, applied, heatVars >>

LateLoad == IF dashboard = "unmounted"
            THEN lateCalls \cup {"loadDashboardData"} ELSE lateCalls

\* faulty variant: the response merged behind the records already held
LoadResolvedMerge(data) ==
  /\ pendingDash > 0
  /\ pendingDash' = pendingDash - 1
  /\ dashboardData' =
       [data EXCEPT !.recent_transactions = dashboardData.recent_transactions \o @]
  /\ loading' = FALSE
  /\ sinceRefresh' = << >>
  /\ last' = Last("loaded", NoTransaction, 0)
  /\ lateCalls' = LateLoad
  /\ applied' = data
  /\ UNCHANGED << dashboard, alerts, socket, now, received, heatVars >>

\* loadDashboardData after its await: the request succeeded with `data`
LoadResolved(data) ==
  /\ pendingDash > 0
  /\ pendingDash' = pendingDash - 1
  /\ dashboardData' = data
  /\ loading' = FALSE
  /\ sinceRefresh' = << >>
  /\ last' = Last("loaded", NoTransaction, 0)
  /\ lateCalls' = LateLoad
  /\ applied' = data
  /\ UNCHANGED << dashboard, alerts, socket, now, received, heatVars >>

\* loadDashboardData after its await: the request was rejected
LoadRejected ==
  /\ pendingDash > 0
  /\ pendingDash' = pendingDash - 1
  /\ loading' = FALSE
  /\ last' = Last("rejected", NoTransaction, 0)
  /\ lateCalls' = LateLoad
  /\ UNCHANGED << dashboard, dashboardData, alerts, socket, now, received,
                  sinceRefresh, applied, heatVars >>

\* onClearAlert(id): the dismiss button of one rendered alert
ClearAlert(id, prev) == SelectSeq(prev, LAMBDA alert : alert.id # id)

OnClearAlert ==
  /\ dashboard = "mounted"
  /\ ~loading
  /\ \E k \in 1..Len(alerts) :
       /\ alerts' = ClearAlert(alerts[k].id, alerts)
       /\ last' = Last("dismiss", NoTransaction, alerts[k].id)
  /\ UNCHANGED << dashboard, dashboardData, loading, socket, pendingDash, now,
                  received, sinceRefresh, lateCalls, applied, heatVars >>

\* the effect's cleanup: newSocket.close()
DashboardUnmount ==
  /\ dashboard = "mounted"
  /\ dashboard' = "unmounted"
  /\ socket' = [socket EXCEPT !.closes = @ + 1, !.listening = FALSE]
  /\ last' = Last("unmount", NoTransaction, 0)
  /\ UNCHANGED << dashboardData, alerts, loading, pendingDash, now, received,
                  sinceRefresh, lateCalls, applied, heatVars >>

\* what Dashboard renders: the spinner or the dashboard with its Refresh button
DashboardView == IF loading THEN "spinner" ELSE "dashboard"

\* Number.prototype.toFixed(1) of the non-negative quotient num / den, in
\* tenths: the nearest tenth, the larger one on a tie
ToFixed1(num, den) == (20 * num + den) \div (2 * den)

\* faulty variant: the blocked transactions left out
CalculateFraudRateFlaggedOnly(fraud_stats) ==
  IF fraud_stats.total_transactions = 0 THEN 0
  ELSE ToFixed1(fraud_stats.flagged_transactions * 100, fraud_stats.total_transactions)

\* calculateFraudRate, in tenths of a percent
CalculateFraudRate(fraud_stats) ==
  IF fraud_stats.total_transactions = 0 THEN 0
  ELSE ToFixed1((fraud_stats.flagged_transactions + fraud_stats.blocked_transactions) * 100,
                fraud_stats.total_transactions)

(***************************************************************************)
(* HeatMap                                                                 *)
(***************************************************************************)
HeatLast(op) == [op |-> op, data |-> heatMapData]

Max(a, b) == IF a > b THEN a ELSE b

\* point.avg_risk_score || 0.5: a falsy score (0, NaN, undefined) gives 0.5
ScoreOrDefault(avg_risk_score) == IF avg_risk_score = 0 THEN 50 ELSE avg_risk_score

\* Math.min(point.avg_risk_score || 0.5, 1.0), in hundredths
Intensity(point) ==
  IF ScoreOrDefault(point.avg_risk_score) < 100
  THEN ScoreOrDefault(point.avg_risk_score) ELSE 100

\* !isNaN(c) && c !== null
IsCoordinate(c) == c # NotANumber /\ c # Null

\* getHeatColor
GetHeatColor(intensity) ==
  IF intensity >= 80 THEN "#FF0000"
  ELSE IF intensity >= 60 THEN "#FF4500"
  ELSE IF intensity >= 40 THEN "#FF8C00"
  ELSE IF intensity >= 20 THEN "#FFD700"
  ELSE "#FFFF00"

\* Math.max(intensity * 50, 10), in hundredths
HeatRadius(intensity) == Max(intensity * 50, 1000)

\* the heatPoints of the HeatMapLayer effect
HeatPoints(data) ==
  SelectSeq([k \in 1..Len(data) |->
               << data[k]._id.lat, data[k]._id.lng, Intensity(data[k]) >>],
            LAMBDA point : IsCoordinate(point[1]) /\ IsCoordinate(point[2]))

\* the circle markers the HeatMapLayer effect puts on the map
HeatMarkers(data) ==
  IF Len(data) = 0 THEN << >>
  ELSE [k \in 1..Len(HeatPoints(data)) |->
          [lat |-> HeatPoints(data)[k][1],
           lng |-> HeatPoints(data)[k][2],
           radius |-> HeatRadius(HeatPoints(data)[k][3]),
           fillColor |-> GetHeatColor(HeatPoints(data)[k][3])]]

\* what HeatMap renders: the spinner, the error with its Retry button, or the map
HeatMapView ==
  IF heatLoading THEN "spinner" ELSE IF heatError # "null" THEN "error" ELSE "map"

\* the body of loadHeatMapData up to its await
StartHeatLoad ==
  /\ heatError' = "null"
  /\ pendingHeat' = pendingHeat + 1

\* useEffect(() => {...}, []): load, then start the refresh timer
HeatMapMount ==
  /\ heat = "new"
  /\ heat' = "mounted"
  /\ StartHeatLoad
  /\ heatTimer' = TRUE
  /\ heatCount' = [heatCount EXCEPT !.fetches = @ + 1]
  /\ heatLast' = HeatLast("mount")
  /\ UNCHANGED << heatMapData, heatLoading, lastUpdate, dashVars, now, lateCalls >>

\* the setInterval callback, one refresh period later
HeatTimerTick ==
  /\ heatTimer
  /\ heatCount.ticks < MaxHeatTicks
  /\ now' = now + RefreshIntervalMs
  /\ StartHeatLoad
  /\ heatCount' = [heatCount EXCEPT !.fetches = @ + 1, !.ticks = @ + 1]
  /\ lateCalls' = IF heat = "unmounted" THEN lateCalls \cup {"interval"} ELSE lateCalls
  /\ heatLast' = HeatLast("tick")
  /\ UNCHANGED << heat, heatTimer, heatMapData, heatLoading, lastUpdate, dashVars >>

\* the Retry button, rendered only in the error state
HeatRetryClick ==
  /\ heat = "mounted"
  /\ ~heatLoading
  /\ heatError # "null"
  /\ heatCount.retries < MaxHeatRetries
  /\ StartHeatLoad
  /\ heatCount' = [heatCount EXCEPT !.fetches = @ + 1, !.retries = @ + 1]
  /\ heatLast' = HeatLast("retry")
  /\ UNCHANGED << heat, heatTimer, heatMapData, heatLoading, lastUpdate, dashVars,
                  now, lateCalls >>

LateHeatLoad == IF heat = "unmounted"
                THEN lateCalls \cup {"loadHeatMapData"} ELSE lateCalls

\* loadHeatMapData after its await: the request succeeded with `data`
HeatLoadResolved(data) ==
  /\ pendingHeat > 0
  /\ pendingHeat' = pendingHeat - 1
  /\ heatMapData' = data
  /\ lastUpdate' = now
  /\ heatLoading' = FALSE
  /\ lateCalls' = LateHeatLoad
  /\ heatLast' = HeatLast("loaded")
  /\ UNCHANGED << heat, heatTimer, heatError, heatCount, dashVars, now >>

\* loadHeatMapData after its await: the request was rejected
HeatLoadRejected ==
  /\ pendingHeat > 0
  /\ pendingHeat' = pendingHeat - 1
  /\ heatError' = "Failed to load heat map data"
  /\ heatLoading' = FALSE
  /\ lateCalls' = LateHeatLoad
  /\ heatLast' = HeatLast("rejected")
  /\ UNCHANGED << heat, heatTimer, heatMapData, lastUpdate, heatCount, dashVars, now >>

\* faulty variant: the timer left running
HeatMapUnmountLeaky ==
  /\ heat = "mounted"
  /\ heat' = "unmounted"
  /\ heatCount' = [heatCount EXCEPT !.atUnmount = heatCount.fetches]
  /\ heatLast' = HeatLast("unmount")
  /\ UNCHANGED << heatTimer, heatMapData, heatLoading, heatError, lastUpdate,
                  pendingHeat, dashVars, now, lateCalls >>

\* the effect's cleanup: clearInterval(interval)
HeatMapUnmount ==
  /\ heat = "mounted"
  /\ heat' = "unmounted"
  /\ heatTimer' = FALSE
  /\ heatCount' = [heatCount EXCEPT !.atUnmount = heatCount.fetches]
  /\ heatLast' = HeatLast("unmount")
  /\ UNCHANGED << heatMapData, heatLoading, heatError, lastUpdate, pendingHeat,
                  dashVars, now, lateCalls >>

(***************************************************************************)
(* Specifications                                                          *)
(***************************************************************************)
Next ==
  \/ DashboardMount
  \/ LiveEvent
  \/ Tick
  \/ RefreshClick
  \/ \E data \in Responses : LoadResolved(data)
  \/ LoadRejected
  \/ OnClearAlert
  \/ DashboardUnmount

Spec == Init /\ [][Next]_vars

\* refreshes of every size against a few live events
LiveEventRefresh ==
  /\ received < MaxEvents
  /\ \E transaction \in RefreshEvents(received + 1) : OnTransactionUpdate(transaction)

NextRefresh ==
  \/ DashboardMount
  \/ LiveEventRefresh
  \/ RefreshClick
  \/ \E data \in RefreshResponses : LoadResolved(data)
  \/ LoadRejected
  \/ DashboardUnmount

SpecRefresh == Init /\ [][NextRefresh]_vars

\* a long burst of alert-triggering events
NextBurst ==
  \/ DashboardMount
  \/ BurstEvent
  \/ Tick
  \/ \E data \in Responses : LoadResolved(data)
  \/ DashboardUnmount

SpecBurst == Init /\ [][NextBurst]_vars

\* the statistics of every response
NextRate ==
  \/ DashboardMount
  \/ RefreshClick
  \/ \E data \in RateResponses : LoadResolved(data)
  \/ LoadRejected
  \/ DashboardUnmount

SpecRate == Init /\ [][NextRate]_vars

\* the heat map alone
NextHeat ==
  \/ HeatMapMount
  \/ HeatTimerTick
  \/ HeatRetryClick
  \/ \E data \in HeatResponses : HeatLoadResolved(data)
  \/ HeatLoadRejected
  \/ HeatMapUnmount

SpecHeat == Init /\ [][NextHeat]_vars

(***************************************************************************)
(* Properties                                                              *)
(***************************************************************************)
history == dashboardData.recent_transactions

Reverse(s) == [k \in 1..Len(s) |-> s[Len(s) + 1 - k]]

Min(a, b) == IF a < b THEN a ELSE b

\* C1: a transaction_update event prepends exactly one alert that references
\* the event's transaction when its action is block or its risk score is
\* strictly above 0.7, and leaves the alert list as it was otherwise
\* (a score of exactly 0.7 with action flag or approve included).
C1_AlertIffPolicy ==
  last.op = "event" =>
    IF last.tx.action = "block" \/ last.tx.risk_score > 70
    THEN /\ Len(alerts) = Min(Len(last.alerts) + 1, 20)
         /\ alerts[1].transaction_id = last.tx.transaction_id
         /\ alerts[1].type = last.tx.action
         /\ \A k \in 2..Len(alerts) : alerts[k] = last.alerts[k - 1]
    ELSE alerts = last.alerts

\* an approved event just above the threshold lands in front of an older alert
C1_Witness ==
  /\ last.op = "event"
  /\ last.tx.action = "approve"
  /\ last.tx.risk_score = 71
  /\ Len(last.alerts) = 1
  /\ Len(alerts) = 2
  /\ alerts[1].transaction_id # alerts[2].transaction_id

\* C2: the alert list never holds more than 20 entries; a new alert goes to
\* the front and the last entry is the one evicted, so after n alert-triggering
\* events on an empty list the list is the min(n, 20) most recent alerts, newest
\* first: after 25 events, the alerts of events 25 down to 6.
C2_AlertCap ==
  /\ Len(alerts) <= 20
  /\ Len(alerts) = Min(received, 20)
  /\ \A k \in 1..Len(alerts) : alerts[k].message[3] = received + 1 - k
  /\ received = 25 =>
       [k \in 1..Len(alerts) |-> alerts[k].message[3]] = [k \in 1..20 |-> 26 - k]

\* 25 alerts were raised: 20 are kept, the oldest kept is that of event 6
C2_Witness ==
  /\ received = 25
  /\ Len(alerts) = 20
  /\ alerts[20].message[3] = 6
  /\ last.op = "event"
  /\ Len(last.alerts) = 20

\* C3: after a live event the history has at most 50 entries: the event's
\* record at index 0, then the first 49 entries of the history before it,
\* whatever that history was.
C3_PrependBounded ==
  last.op = "event" =>
    /\ Len(history) <= 50
    /\ Len(history) = Min(Len(last.history), 49) + 1
    /\ history[1] = last.tx
    /\ \A k \in 2..Len(history) : history[k] = last.history[k - 1]

\* a live event on a history of 51 entries leaves 50
C3_Witness ==
  /\ last.op = "event"
  /\ Len(last.history) = 51
  /\ Len(history) = 50
  /\ history[50] = last.history[49]

\* C4 (as claimed): dismissing an alert removes exactly one entry and keeps
\* every other entry in its order.
C4_DismissRemovesExactlyOne ==
  last.op = "dismiss" =>
    /\ Len(alerts) = Len(last.alerts) - 1
    /\ \E k \in 1..Len(last.alerts) :
         /\ last.alerts[k].id = last.id
         /\ alerts = SubSeq(last.alerts, 1, k - 1)
                        \o SubSeq(last.alerts, k + 1, Len(last.alerts))

\* C5: the fraud rate is (flagged + blocked) / total * 100 to one decimal place
\* (in tenths: within half a tenth of the exact quotient) when the total is not
\* 0, and 0 when it is; total 100, flagged 10, blocked 5 gives 15.0.
C5_FraudRate ==
  LET stats == dashboardData.fraud_stats
      total == stats.total_transactions
      fraud == stats.flagged_transactions + stats.blocked_transactions
      rate  == CalculateFraudRate(stats)
  IN  /\ total = 0 => rate = 0
      /\ total # 0 => /\ 2 * (rate * total - fraud * 1000) <= total
                      /\ 2 * (fraud * 1000 - rate * total) <= total
      /\ (total = 100 /\ fraud = 15) => rate = 150

\* the documented example has been loaded and is shown
C5_Witness ==
  /\ last.op = "loaded"
  /\ ~loading
  /\ dashboardData.fraud_stats = StatsOf(100, 10, 5)
  /\ CalculateFraudRate(dashboardData.fraud_stats) = 150

\* C6: the heat map starts one load on mount and one per timer tick (and one
\* per retry click); unmounting cancels the timer, and no load is started
\* after the unmount.
C6_HeatFetchSchedule ==
  /\ heatCount.fetches =
       (IF heat = "new" THEN 0 ELSE 1) + heatCount.ticks + heatCount.retries
  /\ heat = "unmounted" => heatCount.fetches = heatCount.atUnmount
  /\ heat = "unmounted" => "interval" \notin lateCalls

\* the timer ticked, then the view was unmounted
C6_Witness ==
  /\ heat = "unmounted"
  /\ heatCount.ticks = 2
  /\ heatCount.fetches = 3
  /\ heatCount.atUnmount = 3

\* C7: the connection is opened once on mount and closed once on teardown;
\* the handler runs once per event in arrival order, nothing reordered or
\* dropped as a duplicate: after events e1..en (n <= 50) with no refresh
\* applied in between, the history starts en, ..., e1.
C7_ChannelOrder ==
  /\ socket.opens = (IF dashboard = "new" THEN 0 ELSE 1)
  /\ socket.closes = (IF dashboard = "unmounted" THEN 1 ELSE 0)
  /\ socket.listening = (dashboard = "mounted")
  /\ Len(sinceRefresh) <= 50 =>
       /\ Len(history) >= Len(sinceRefresh)
       /\ SubSeq(history, 1, Len(sinceRefresh)) = Reverse(sinceRefresh)

\* 50 events since the last refresh, two of them on the same transaction
C7_Witness ==
  /\ Len(sinceRefresh) = 50
  /\ history[1].transaction_id = history[8].transaction_id
  /\ history[1] # history[8]
  /\ history[50] = sinceRefresh[1]
  /\ dashboard = "unmounted"

\* C8 (as claimed): the history never holds more than 50 entries, whatever
\* the size of a refresh response.
C8_HistoryAtMost50 == Len(history) <= 50

\* C9 (as claimed): both lists are strictly most-recent-first: each entry has
\* a strictly later timestamp (an alert also a strictly larger identifier)
\* than the entry after it.
C9_StrictlyMostRecentFirst ==
  /\ \A k \in 1..(Len(history) - 1) : history[k].timestamp > history[k + 1].timestamp
  /\ \A k \in 1..(Len(alerts) - 1) :
       /\ alerts[k].timestamp > alerts[k + 1].timestamp
       /\ alerts[k].id > alerts[k + 1].id

\* C10 (as claimed): after a component is unmounted none of its callbacks
\* runs and none of its state is written.
C10_NothingAfterUnmount ==
  /\ lateCalls = {}
  /\ dashboard = "unmounted" => last.op = "unmount"

\* C11 (as claimed): a rejected fetch leaves the view's data as it was, ends
\* the loading state and puts the view in a visible error state with a retry
\* action; the retry clears the error.
C11_RejectionShowsError ==
  /\ (last.op = "rejected" /\ dashboard = "mounted") =>
       /\ history = last.history
       /\ dashboardData.fraud_stats = applied.fraud_stats
       /\ ~loading
       /\ DashboardView = "error"
  /\ (heatLast.op = "rejected" /\ heat = "mounted") =>
       /\ heatMapData = heatLast.data
       /\ ~heatLoading
       /\ HeatMapView = "error"
  /\ heatLast.op = "retry" => heatError = "null"

\* the heat map's half of C11, which the code does provide
C11_HeatRejectionShowsError ==
  /\ (heatLast.op = "rejected" /\ heat = "mounted") =>
       /\ heatMapData = heatLast.data
       /\ ~heatLoading
       /\ HeatMapView = "error"
  /\ heatLast.op = "retry" => heatError = "null"

\* the aggregates with usable coordinates, in order
Located(data) ==
  SelectSeq(data, LAMBDA p : /\ p._id.lat # NotANumber /\ p._id.lat # Null
                             /\ p._id.lng # NotANumber /\ p._id.lng # Null)

\* the marker the claim describes for an average risk score, in hundredths
ClaimedRadius(avg) == Max(Min(avg, 100) * 50, 1000)

ClaimedColor(avg) ==
  CASE Min(avg, 100) >= 80 -> "#FF0000"
    [] Min(avg, 100) >= 60 /\ Min(avg, 100) < 80 -> "#FF4500"
    [] Min(avg, 100) >= 40 /\ Min(avg, 100) < 60 -> "#FF8C00"
    [] Min(avg, 100) >= 20 /\ Min(avg, 100) < 40 -> "#FFD700"
    [] OTHER -> "#FFFF00"

\* C12 (as claimed): every aggregate with valid coordinates, whatever its
\* average risk score (0 included), is drawn with intensity min(score, 1.0),
\* radius max(intensity * 50, 10) and the colour of the inclusive five-step
\* ladder on that intensity.
C12_MarkerFromScore ==
  /\ Len(HeatMarkers(heatMapData)) = Len(Located(heatMapData))
  /\ \A k \in 1..Len(Located(heatMapData)) :
       /\ HeatMarkers(heatMapData)[k].radius =
            ClaimedRadius(Located(heatMapData)[k].avg_risk_score)
       /\ HeatMarkers(heatMapData)[k].fillColor =
            ClaimedColor(Located(heatMapData)[k].avg_risk_score)

\* the same for the aggregates whose score is not 0, which the code does provide
C12_MarkerFromNonZeroScore ==
  /\ Len(HeatMarkers(heatMapData)) = Len(Located(heatMapData))
  /\ \A k \in 1..Len(Located(heatMapData)) :
       Located(heatMapData)[k].avg_risk_score # 0 =>
         /\ HeatMarkers(heatMapData)[k].radius =
              ClaimedRadius(Located(heatMapData)[k].avg_risk_score)
         /\ HeatMarkers(heatMapData)[k].fillColor =
              ClaimedColor(Located(heatMapData)[k].avg_risk_score)

\* C13: a refresh overwrites: when a response is applied the history and the
\* statistics are exactly the response's, so the live events prepended since
\* the request are gone; live events after it are prepended onto the
\* response's list; the alert list is not changed by the refresh.
C13_RefreshOverwrites ==
  /\ last.op = "loaded" =>
       /\ dashboardData = applied
       /\ history = applied.recent_transactions
       /\ sinceRefresh = << >>
       /\ alerts = last.alerts
  /\ dashboardData.fraud_stats = applied.fraud_stats
  /\ history = IF sinceRefresh = << >> THEN applied.recent_transactions
               ELSE Slice0(Reverse(sinceRefresh) \o applied.recent_transactions, 50)

\* one live event arrived before the response and is gone, one arrived after
\* it and stands in front of the response's two records; an alert survived
C13_Witness ==
  /\ last.op = "event"
  /\ received = 2
  /\ Len(sinceRefresh) = 1
  /\ applied = Response(2)
  /\ history = << last.tx >> \o Response(2).recent_transactions
  /\ Len(alerts) = 2

====
